---------------------------- MODULE Spec2Model ----------------------------
(***************************************************************************)
(* A model of the jodyhash command-line utility (src/utility.c): option    *)
(* parsing, the loop over the input arguments, the line reader, the chunk  *)
(* reader, the sub-block loop, the result printer and the exit status.     *)
(*                                                                         *)
(* Byte strings (file contents, the chunk buffer) are run-length encoded:  *)
(* a sequence of <<byte, count>> runs, count >= 1, adjacent runs holding   *)
(* different bytes.  A 32768-byte chunk is then a handful of runs.         *)
(***************************************************************************)
EXTENDS Integers, Sequences, FiniteSets, TLC

(***************************************************************************)
(* Program constants.                                                      *)
(***************************************************************************)
BSIZE == 32768
kbsize == 4096
PATH_MAX == 4096
EXIT_SUCCESS == 0
EXIT_FAILURE == 1
JODY_HASH_WIDTH == 16

(***************************************************************************)
(* Bounds of the model.                                                    *)
(***************************************************************************)
MaxInputs == 2
MaxFaults == 2

(***************************************************************************)
(* Run-length encoded byte strings.                                        *)
(***************************************************************************)
NUL == 0
LF == 10
CR == 13

RECURSIVE RLen(_)
RLen(r) == IF r = <<>> THEN 0 ELSE r[1][2] + RLen(Tail(r))

\* Concatenation, merging the runs that meet when they hold the same byte.
RCat(a, b) ==
    IF a = <<>> THEN b
    ELSE IF b = <<>> THEN a
    ELSE IF a[Len(a)][1] = b[1][1]
         THEN SubSeq(a, 1, Len(a) - 1)
                  \o << <<b[1][1], a[Len(a)][2] + b[1][2]>> >>
                  \o Tail(b)
         ELSE a \o b

\* The first n bytes of r (all of r when it is shorter).
RECURSIVE RTake(_, _)
RTake(r, n) ==
    IF n <= 0 \/ r = <<>> THEN <<>>
    ELSE IF r[1][2] >= n THEN << <<r[1][1], n>> >>
    ELSE << r[1] >> \o RTake(Tail(r), n - r[1][2])

\* r without its first n bytes.
RECURSIVE RDrop(_, _)
RDrop(r, n) ==
    IF n <= 0 \/ r = <<>> THEN r
    ELSE IF r[1][2] > n THEN << <<r[1][1], r[1][2] - n>> >> \o Tail(r)
    ELSE RDrop(Tail(r), n - r[1][2])

\* Bytes p .. p+n-1 of r (1-based).
RSlice(r, p, n) == RTake(RDrop(r, p - 1), n)

\* The 1-based index of the first byte b in r, 0 when there is none.
RECURSIVE RFind(_, _)
RFind(r, b) ==
    IF r = <<>> THEN 0
    ELSE IF r[1][1] = b THEN 1
    ELSE LET k == RFind(Tail(r), b)
         IN  IF k = 0 THEN 0 ELSE r[1][2] + k

\* The byte at 1-based index p.
RAt(r, p) == RDrop(r, p - 1)[1][1]

\* r with the byte at 1-based index p replaced by b.
RSet(r, p, b) == RCat(RCat(RTake(r, p - 1), << <<b, 1>> >>), RDrop(r, p))

\* A byte string given as a plain sequence of bytes.
RECURSIVE Bytes(_)
Bytes(s) == IF s = <<>> THEN <<>> ELSE RCat(<< <<s[1], 1>> >>, Bytes(Tail(s)))

(***************************************************************************)
(* The hash primitive (jody_hash.h, not part of src/): a seeded fold over  *)
(* the bytes, h <- (h * HashMul + byte + 1) mod HashMod, HashMod the        *)
(* largest prime below 2^16 so that a digest fits JODY_HASH_WIDTH bits.    *)
(* Hashing successive chunks with the previous digest as seed equals one   *)
(* call over their concatenation, and zero-length data leaves the seed.    *)
(***************************************************************************)
HashMul == 31
HashMod == 65521

\* a * b mod HashMod without leaving 32-bit integers.
MulMod(a, b) == ((((a * (b \div 256)) % HashMod) * 256) + a * (b % 256)) % HashMod

\* For n bytes the pair << HashMul^n, 1 + HashMul + ... + HashMul^(n-1) >>,
\* both mod HashMod.  The pair for a bytes followed by b bytes, from the
\* pairs x for a and y for b.
PowSumCat(x, y) ==
    <<MulMod(x[1], y[1]), (MulMod(x[2], y[1]) + y[2]) % HashMod>>

\* The pairs for 0, u, 2u, ... j*u bytes, from the pair unit for u bytes.
RECURSIVE PowSumRow(_, _)
PowSumRow(unit, j) ==
    IF j = 0 THEN << <<1, 0>> >>
    ELSE LET t == PowSumRow(unit, j - 1)
         IN  Append(t, PowSumCat(t[j], unit))

\* The pairs for 0 .. 16 bytes, and for 0 .. 16 times 16, 256 and 4096
\* bytes.
PowSum1 == PowSumRow(<<HashMul, 1>>, 16)
PowSum16 == PowSumRow(PowSum1[17], 16)
PowSum256 == PowSumRow(PowSum16[17], 16)
PowSum4096 == PowSumRow(PowSum256[17], 16)

\* The pair for n bytes, put together from the pairs of its base-16 digits.
RECURSIVE PowSum(_)
PowSum(n) ==
    IF n >= 65536 THEN PowSumCat(PowSum4096[17], PowSum(n - 65536))
    ELSE PowSumCat(PowSumCat(PowSum4096[(n \div 4096) + 1],
                             PowSum256[((n \div 256) % 16) + 1]),
                   PowSumCat(PowSum16[((n \div 16) % 16) + 1],
                             PowSum1[(n % 16) + 1]))

\* The fold over n copies of byte b, from seed h.
HashRun(h, b, n) ==
    LET ps == PowSum(n)
    IN  (MulMod(h, ps[1]) + MulMod(b + 1, ps[2])) % HashMod

RECURSIVE HashFold(_, _)
HashFold(h, r) ==
    IF r = <<>> THEN h ELSE HashFold(HashRun(h, r[1][1], r[1][2]), Tail(r))

\* The digest after hashing the first count bytes of data from seed hash.
jody_block_hash(data, hash, count) == HashFold(hash, RTake(data, count))

jody_rolling_block_hash(data, hash, count) == HashFold(hash, RTake(data, count))

(***************************************************************************)
(* PRINTHASH: fixed-width, zero-padded, lower-case hexadecimal.            *)
(***************************************************************************)
HexDigit(d) == SubSeq("0123456789abcdef", d + 1, d + 1)

RECURSIVE HexPad(_, _)
HexPad(v, digits) ==
    IF digits = 0 THEN "" ELSE HexPad(v \div 16, digits - 1) \o HexDigit(v % 16)

PRINTHASH(a) == HexPad(a, JODY_HASH_WIDTH \div 4)


(***************************************************************************)
(* The environment: the files that exist, the bytes on standard input and  *)
(* the command lines the runs are started with.                            *)
(***************************************************************************)
Files ==
    [n \in {"empty", "data.bin", "mixed.txt", "blk.bin", "big.bin"} |->
        CASE n = "empty"     -> <<>>
          [] n = "data.bin"  -> Bytes(<<104, 101, 108, 108, 111>>)
          [] n = "mixed.txt" -> Bytes(<<97, 98, CR, LF, CR, LF, 120, LF, 97, 98>>)
          [] n = "blk.bin"   -> << <<97, 3000>>, <<98, 2 * kbsize - 3000>> >>
          [] n = "big.bin"   -> << <<97, 5000>>, <<98, 9000>>, <<99, 20000>>,
                                   <<100, BSIZE + kbsize + 3 - 34000>> >>]

StdinData == Bytes(<<97, 98, LF, LF, 99, LF>>)

\* What may stand first on the command line, and what may follow as inputs:
\* "-r" among the inputs is a mode flag in a place where it selects no mode.
FlagTokens ==
    {"-b", "-s", "-l", "-L", "-n", "-B", "-r", "--", "-v", "-h", "--help"}

InputTokens == {"-", "nofile", "-r", "empty", "data.bin", "mixed.txt"}

\* The command lines that name the two long files, blk.bin of two
\* sub-blocks and big.bin of more than one chunk, which is also one line
\* longer than the line buffer.
LongArgLists ==
    {<<"-r", "big.bin">>, <<"-B", "big.bin">>, <<"-l", "big.bin">>,
     <<"-B", "blk.bin">>}

ArgLists ==
    {f \o s : f \in {<<>>} \cup {<<t>> : t \in FlagTokens},
              s \in UNION {[1..n -> InputTokens] : n \in 0..MaxInputs}}
    \cup LongArgLists

VARIABLES
    argv,          \* argv[1..argc-1]; argv[0] is the program name
    pc,            \* the position in main
    outmode, argnum, hash, i, kblk, blk, name, fp, read_err, error,
    fpos, feof, ferr,   \* the open stream: bytes consumed, its two indicators
    stdin_closed,  \* standard input has been through fclose
    stdout,        \* the lines written to the output stream
    stderr,        \* the lines written to the diagnostic stream
    faults,        \* read and hash failures the environment has produced
    hcall,         \* the arguments of the latest call of the hash primitive
    failed,        \* the argument positions whose input failed to open, read or hash
    out0,          \* the number of output lines when the current input was opened
    events,        \* the fopen and fclose calls so far, each with its argnum
    exitcode       \* the exit status, -1 while the process runs

vars == <<argv, pc, outmode, argnum, hash, i, kblk, blk, name, fp, read_err,
          error, fpos, feof, ferr, stdin_closed, stdout, stderr, faults,
          hcall, failed, out0, events, exitcode>>

argc == Len(argv) + 1
progname == "jodyhash"

NoCall == [fn |-> "none", seed |-> 0, offset |-> 0, count |-> 0, data |-> <<>>]

\* One PRINTHASH (digest "" when none is printed) and the printf after it.
OutLine(digest, fmt, str, text) ==
    [digest |-> digest, fmt |-> fmt, str |-> str, text |-> text]

Min(a, b) == IF a < b THEN a ELSE b

\* strncpy into the zero-filled name[PATH_MAX + 1].
Strncpy(s, n) == IF Len(s) <= n THEN s ELSE SubSeq(s, 1, n)

\* strlen: the bytes before the first NUL.
Strlen(buf) == RFind(buf, NUL) - 1

\* The C string held in buf.
CString(buf) == RTake(buf, Strlen(buf))

Content(f) == IF f = "stdin" THEN StdinData ELSE Files[f]

Init ==
    /\ argv \in ArgLists
    /\ pc = "options"
    /\ outmode = 0
    /\ argnum = 1
    /\ hash = 0
    /\ i = 0
    /\ kblk = 0
    /\ blk = <<>>
    /\ name = ""
    /\ fp = "NULL"
    /\ read_err = 0
    /\ error = EXIT_SUCCESS
    /\ fpos = 0
    /\ feof = FALSE
    /\ ferr = FALSE
    /\ stdin_closed = FALSE
    /\ stdout = <<>>
    /\ stderr = <<>>
    /\ faults = 0
    /\ hcall = NoCall
    /\ failed = {}
    /\ out0 = 0
    /\ events = <<>>
    /\ exitcode = -1

(***************************************************************************)
(* usage(): the lines it writes to the diagnostic stream.                  *)
(***************************************************************************)
\* VER and VERDATE of version.h.
VER == "X.Y"
VERDATE == "0000-00-00"

\* The builds: whether NO_AVX2 and whether NO_SSE2 is defined when
\* usage() is compiled, by the compiler's command line or by
\* jody_hash_simd.h.  Nothing but the first line of usage() shows it.
Builds == [NO_AVX2 : BOOLEAN, NO_SSE2 : BOOLEAN]

\* The last %s of the first line (lines 69-77) in the build b.
Acceleration(b) ==
    IF ~b.NO_AVX2 /\ ~b.NO_SSE2 THEN " AVX2/SSE2 accelerated"
    ELSE IF ~b.NO_AVX2 THEN " AVX2 accelerated"
    ELSE IF ~b.NO_SSE2 THEN " SSE2 accelerated"
    ELSE " standard"

usage(detailed, b) ==
    << "Jody Bruchon's hashing utility " \o VER \o " (" \o VERDATE \o ") ["
         \o ToString(JODY_HASH_WIDTH) \o " bit width]" \o Acceleration(b) >>
    \o (IF detailed = 0 THEN <<>>
        ELSE << "usage: " \o progname \o " [-b|s|n|l|L] [file_to_hash]",
                "Specifying no name or '-' as the name reads from stdin",
                "  -b|-s  Output in md5sum binary style instead of bare hashes",
                "  -n     Output just the file name after the hash",
                "  -l     Generate a hash for each text input line",
                "  -L     Same as -l but also prints hashed text after the hash",
                "  -B     Output a hash for every 4096 byte block of the file",
                "  -r     Output a rolling 4K hash" >>)

\* The mode the first argument selects (lines 183-188).
ModeOf(a) ==
    CASE a \in {"-s", "-b"} -> 1
      [] a = "-l" -> 2
      [] a = "-L" -> 3
      [] a = "-n" -> 4
      [] a = "-B" -> 5
      [] a = "-r" -> 6
      [] OTHER -> 0

\* A variant of HasOptions that takes a lone argument for an option.
HasOptionsLone == argc > 1

\* if (argc > 2): a mode flag needs an argument after it (line 182).
HasOptions == argc > 2

\* Process options.
ParseOptions ==
    /\ pc = "options"
    /\ IF argc > 1 /\ argv[1] \in {"-v", "-h", "--help"}
       THEN /\ \E b \in Builds :
                 stderr' = stderr \o usage(IF argv[1] = "-v" THEN 0 ELSE 1, b)
            /\ exitcode' = EXIT_SUCCESS
            /\ pc' = "exited"
            /\ UNCHANGED <<outmode, argnum>>
       ELSE /\ outmode' = IF HasOptions THEN ModeOf(argv[1]) ELSE 0
            /\ argnum' = IF HasOptions /\ (outmode' > 0 \/ argv[1] = "--")
                         THEN argnum + 1 ELSE argnum
            /\ pc' = "open"
            /\ UNCHANGED <<stderr, exitcode>>
    /\ UNCHANGED <<argv, hash, i, kblk, blk, name, fp, read_err, error, fpos,
                   feof, ferr, stdin_closed, stdout, faults, hcall, failed, out0,
                   events>>

\* A variant of LoopEnd that leaves the loop after any input.
LoopEndStop(n) == "exit"

\* } while (argnum < argc); then exit(error).
LoopEnd(n) == IF n < argc THEN "open" ELSE "exit"

\* A variant of HashAtOpen that keeps the digest of the input before.
HashAtOpenKept == hash

\* hash = 0; at the head of the do loop (line 193).
HashAtOpen == 0

\* The indicators of the stream when the turn starts: clear after fopen
\* and for standard input not used before; after fclose(stdin) they are
\* what the closed stream is left with, which nothing defines.
OpenIndicators(f) ==
    IF f = "stdin" /\ stdin_closed
    THEN [eof : BOOLEAN, err : BOOLEAN]
    ELSE {[eof |-> FALSE, err |-> FALSE]}

\* The head of the do loop: reset the digest, open the input.
OpenInput ==
    /\ pc = "open"
    /\ hash' = HashAtOpen
    /\ out0' = Len(stdout)
    /\ LET stdin == argc = 1 \/ argv[argnum] = "-"
           path  == IF stdin THEN "-" ELSE argv[argnum]
       IN  /\ name' = Strncpy(path, PATH_MAX)
           /\ fp' = IF stdin THEN "stdin"
                    ELSE IF path \in DOMAIN Files THEN path ELSE "NULL"
    /\ fpos' = 0
    /\ \E ind \in OpenIndicators(fp') :
         /\ feof' = ind.eof
         /\ ferr' = ind.err
    /\ events' = Append(events, <<IF fp' = "NULL" THEN "fopen failed" ELSE "fopen",
                                  argnum>>)
    /\ IF fp' = "NULL"
       THEN /\ stderr' = Append(stderr, "error: cannot open: " \o name')
            /\ error' = EXIT_FAILURE
            /\ argnum' = argnum + 1
            /\ failed' = failed \cup {argnum}
            /\ pc' = LoopEnd(argnum')
       ELSE /\ pc' = IF outmode = 2 \/ outmode = 3 THEN "fgets" ELSE "fread"
            /\ UNCHANGED <<stderr, error, argnum, failed>>
    /\ UNCHANGED <<argv, outmode, i, kblk, blk, read_err, stdin_closed, stdout,
                   faults, hcall, exitcode>>

(***************************************************************************)
(* What the C library and the hash primitive may answer.  A read failure   *)
(* sets the stream's error indicator and returns fewer bytes than asked    *)
(* for, possibly none; the hash primitive returns nonzero when it fails.   *)
(* A stream that went through fclose yields nothing and reports an error.  *)
(***************************************************************************)
Avail == RLen(Content(fp)) - fpos

\* The counts a failing fread returns with the error indicator set: any
\* count up to what it could read.
ErrReadSizes == 0 .. Min(BSIZE, Avail)

\* The bytes of the line at the stream's position that come before its
\* newline, as far as fgets would read them.
LinePart ==
    LET upto == Min(BSIZE - 1, Avail)
        nl   == RFind(RDrop(Content(fp), fpos), LF)
    IN  IF nl # 0 /\ nl <= upto THEN nl - 1 ELSE upto

\* The lengths a failing fgets returns with the error indicator set: -1
\* for NULL, or any part of the line short of its newline.
ErrLineSizes == {-1} \cup 1 .. LinePart

\* The bytes a failing fgets has stored in the buffer when it returns
\* NULL: any part of the line short of its newline, possibly none, and no
\* terminator after them.
ErrLineStored == 0 .. LinePart

FreadOutcomes ==
    IF fp = "stdin" /\ stdin_closed
    THEN {[n |-> 0, eof |-> FALSE, err |-> TRUE, fault |-> 0]}
    ELSE {[n |-> Min(BSIZE, Avail), eof |-> Avail < BSIZE, err |-> FALSE,
           fault |-> 0]}
         \cup {[n |-> k, eof |-> FALSE, err |-> TRUE, fault |-> 1] :
                 k \in {e \in ErrReadSizes : faults < MaxFaults}}

\* The length of the line fgets(blk, BSIZE, fp) reads: up to and including
\* the first newline, at most BSIZE - 1 bytes, at most what is left.
LineLen ==
    LET nl == RFind(RDrop(Content(fp), fpos), LF)
    IN  IF nl # 0 /\ nl <= BSIZE - 1 THEN nl ELSE Min(BSIZE - 1, Avail)

\* The outcomes of a fgets that meets a read failure, numbered j: NULL
\* with -j bytes stored for the j up to 0, a partial line of j bytes for
\* the j from 1.
FgetsFailures ==
    LET sizes  == ErrLineSizes
        stored == ErrLineStored
    IN  {[n |-> IF j > 0 THEN j ELSE -1, c |-> IF j > 0 THEN j ELSE 0 - j,
          eof |-> FALSE, err |-> TRUE, fault |-> 1] :
            j \in {e \in (0 - LinePart) .. LinePart :
                     IF e > 0 THEN e \in sizes ELSE 0 - e \in stored}}

\* n = -1 stands for the NULL that fgets returns, c is the number of
\* bytes it took from the stream and stored.  On a read failure fgets
\* returns NULL or hands back what was read before the failure, a partial
\* line with the error indicator set (the case line 223 tests for).
FgetsOutcomes ==
    IF fp = "stdin" /\ stdin_closed
    THEN {[n |-> -1, c |-> 0, eof |-> FALSE, err |-> TRUE, fault |-> 0]}
    ELSE (IF Avail = 0
          THEN {[n |-> -1, c |-> 0, eof |-> TRUE, err |-> FALSE, fault |-> 0]}
          ELSE {[n |-> LineLen, c |-> LineLen,
                 eof |-> LineLen = Avail
                         /\ RAt(Content(fp), fpos + LineLen) # LF
                         /\ LineLen < BSIZE - 1,
                 err |-> FALSE, fault |-> 0]})
         \cup (IF faults < MaxFaults THEN FgetsFailures ELSE {})

HashOutcomes == {0} \cup (IF faults < MaxFaults THEN {1} ELSE {})

\* if (feof(fp)) break; at the end of the body of the chunk loop.
ChunkEnd(eof) == IF eof THEN "result" ELSE "fread"

sizeof_jodyhash_t == JODY_HASH_WIDTH \div 8

\* A variant of kboffsize that counts bytes where blk counts elements.
kboffsizeBytes == kbsize

\* const int kboffsize = kbsize / (int)sizeof(jodyhash_t);
kboffsize == kbsize \div sizeof_jodyhash_t

(***************************************************************************)
(* One turn of while (fgets(blk, BSIZE, fp) != NULL), lines 221-249.       *)
(***************************************************************************)
\* The buffer after the terminator is stripped (lines 231-232), len = strlen.
StripNewline(buf, len) ==
    IF RAt(buf, len - 1) = CR THEN RSet(buf, len - 1, NUL)
    ELSE RSet(buf, len, NUL)

\* Skip empty lines (line 229).
SkipLine(buf, len) == len < 2 \/ RAt(buf, 1) = LF

\* The buffer old after the bytes new are stored at its start.
Stored(new, old) == RCat(new, RDrop(old, RLen(new)))

LineStep ==
    /\ pc = "fgets"
    /\ \E o \in FgetsOutcomes, rc \in HashOutcomes :
         LET taken == RSlice(Content(fp), fpos + 1, o.c)
             got   == RCat(taken, << <<NUL, 1>> >>)
             len   == Strlen(got)
             strip == StripNewline(got, len)
             state == IF o.n = -1 THEN "null"
                      ELSE IF o.err THEN "ferror"
                      ELSE IF SkipLine(got, len) THEN "skip"
                      ELSE IF rc # 0 THEN "hashfail"
                      ELSE "line"
         IN  /\ feof' = o.eof
             /\ ferr' = o.err
             /\ fpos' = fpos + o.c
             /\ faults' = faults + o.fault + (IF state = "hashfail" THEN 1 ELSE 0)
             /\ blk' = CASE state = "null" -> Stored(taken, blk)
                         [] state \in {"ferror", "skip"} -> got
                         [] OTHER -> strip
             /\ hash' = CASE state = "null" -> hash
                          [] state = "line" -> jody_block_hash(strip, 0, len - 1)
                          [] OTHER -> 0
             /\ i' = IF state \in {"null", "ferror"} THEN i ELSE len
             /\ hcall' = IF state \in {"line", "hashfail"}
                         THEN [fn |-> "jody_block_hash", seed |-> 0, offset |-> 0,
                               count |-> len - 1, data |-> RTake(strip, len - 1)]
                         ELSE hcall
             /\ stdout' = IF state = "line"
                          THEN Append(stdout,
                                 IF outmode = 3
                                 THEN OutLine(PRINTHASH(hash'), " '%s'\n", "",
                                              CString(strip))
                                 ELSE OutLine(PRINTHASH(hash'), "\n", "", <<>>))
                          ELSE stdout
             /\ stderr' = CASE state = "ferror" ->
                                 Append(stderr, "error reading file: " \o name)
                            [] state = "hashfail" ->
                                 Append(stderr, "error hashing file: " \o name)
                            [] OTHER -> stderr
             /\ error' = IF state \in {"ferror", "hashfail"} THEN EXIT_FAILURE
                         ELSE error
             /\ read_err' = IF state \in {"ferror", "hashfail"} THEN 1
                            ELSE read_err
             /\ failed' = IF o.err \/ state = "hashfail"
                          THEN failed \cup {argnum} ELSE failed
             /\ pc' = CASE state = "skip" -> "fgets"
                        [] state = "line" -> IF o.eof THEN "close" ELSE "fgets"
                        [] OTHER -> "close"
    /\ UNCHANGED <<argv, outmode, argnum, kblk, name, fp, stdin_closed, out0,
                   events, exitcode>>

(***************************************************************************)
(* One turn of while ((i = fread(blk, 1, BSIZE, fp))), lines 253-306; in   *)
(* sub-block mode the inner loop is entered and runs in SubBlockStep.      *)
(***************************************************************************)
\* A variant of HashChunk that starts every chunk from a zero digest.
HashChunkReset(mode, buf, seed, n) ==
    IF mode = 6 THEN jody_rolling_block_hash(buf, 0, n)
    ELSE jody_block_hash(buf, 0, n)

\* The call of lines 296-297 when it succeeds: the digest it leaves in hash.
HashChunk(mode, buf, seed, n) ==
    IF mode = 6 THEN jody_rolling_block_hash(buf, seed, n)
    ELSE jody_block_hash(buf, seed, n)

ChunkStep ==
    /\ pc = "fread"
    /\ \E o \in FreadOutcomes, rc \in HashOutcomes :
         LET got   == RSlice(Content(fp), fpos + 1, o.n)
             state == IF o.n = 0 THEN "end"
                      ELSE IF o.err THEN "ferror"
                      ELSE IF outmode = 5 THEN "subblocks"
                      ELSE IF rc # 0 THEN "hashfail"
                      ELSE "hashed"
             fn    == IF outmode = 6 THEN "jody_rolling_block_hash"
                      ELSE "jody_block_hash"
         IN  /\ feof' = o.eof
             /\ ferr' = o.err
             /\ fpos' = fpos + o.n
             /\ faults' = faults + o.fault + (IF state = "hashfail" THEN 1 ELSE 0)
             /\ i' = o.n
             /\ blk' = IF o.n = 0 THEN blk ELSE got
             /\ kblk' = IF state = "subblocks" THEN 0 ELSE kblk
             /\ hash' = IF state = "hashed"
                        THEN HashChunk(outmode, got, hash, o.n)
                        ELSE hash
             /\ hcall' = IF state \in {"hashed", "hashfail"}
                         THEN [fn |-> fn, seed |-> hash, offset |-> 0,
                               count |-> o.n, data |-> RTake(got, o.n)]
                         ELSE hcall
             /\ stderr' = CASE state = "ferror" -> Append(stderr, name)
                            [] state = "hashed" ->
                                 Append(stderr, "doing a rolling hash of "
                                                \o ToString(o.n) \o " bytes")
                            [] state = "hashfail" ->
                                 stderr
                                 \o << "doing a rolling hash of "
                                         \o ToString(o.n) \o " bytes",
                                       "error hashing file: " \o name >>
                            [] OTHER -> stderr
             /\ error' = IF state \in {"ferror", "hashfail"} THEN EXIT_FAILURE
                         ELSE error
             /\ read_err' = IF state \in {"ferror", "hashfail"} THEN 1
                            ELSE read_err
             /\ failed' = IF o.err \/ state = "hashfail"
                          THEN failed \cup {argnum} ELSE failed
             /\ pc' = CASE state = "subblocks" -> "subblock"
                        [] state = "hashed" -> ChunkEnd(o.eof)
                        [] OTHER -> "result"
    /\ UNCHANGED <<argv, outmode, argnum, name, fp, stdin_closed, stdout, out0,
                   events, exitcode>>

(***************************************************************************)
(* One turn of while (i > 0), lines 267-280, and, when the loop ends, the  *)
(* end-of-file test that closes the body of the chunk loop (line 305).     *)
(***************************************************************************)
\* A variant of SubBlockSize that takes every sub-block for a full one.
SubBlockSizeFull(left) == kbsize

\* kbdrop = (i > kbsize) ? kbsize : i; (line 269)
SubBlockSize(left) == IF left > kbsize THEN kbsize ELSE left

SubBlockStep ==
    /\ pc = "subblock"
    /\ \E rc \in HashOutcomes :
         LET kbdrop == SubBlockSize(i)
             offset == kblk * kboffsize * sizeof_jodyhash_t
             data   == RDrop(blk, offset)
         IN  /\ hcall' = [fn |-> "jody_block_hash", seed |-> 0, offset |-> offset,
                          count |-> kbdrop, data |-> RTake(data, kbdrop)]
             /\ IF rc = 0
                THEN /\ hash' = jody_block_hash(data, 0, kbdrop)
                     /\ stdout' = Append(stdout,
                                         OutLine(PRINTHASH(hash'), "\n", "", <<>>))
                     /\ kblk' = kblk + 1
                     /\ i' = i - kbdrop
                     /\ pc' = IF i' > 0 THEN "subblock" ELSE ChunkEnd(feof)
                     /\ UNCHANGED <<stderr, error, read_err, faults, failed>>
                ELSE /\ hash' = 0
                     /\ stderr' = Append(stderr, "error hashing file: " \o name)
                     /\ error' = EXIT_FAILURE
                     /\ read_err' = 1
                     /\ faults' = faults + 1
                     /\ failed' = failed \cup {argnum}
                     /\ pc' = ChunkEnd(feof)
                     /\ UNCHANGED <<stdout, kblk, i>>
    /\ UNCHANGED <<argv, outmode, argnum, blk, name, fp, fpos, feof, ferr,
                   stdin_closed, out0, events, exitcode>>

(***************************************************************************)
(* After the chunk loop, lines 314-331: loop without result on read        *)
(* errors, else print the digest and what the mode puts after it.          *)
(***************************************************************************)
\* A variant of ResultLine with the formats of modes 1 and 4 exchanged.
ResultLineSwapped(mode, h, nm) ==
    LET digest == IF mode # 5 THEN PRINTHASH(h) ELSE ""
    IN  CASE mode = 4 -> OutLine(digest, " *%s\n", nm, <<>>)
          [] mode = 1 -> OutLine(digest, " %s\n", nm, <<>>)
          [] OTHER -> OutLine(digest, "\n", "", <<>>)

\* Lines 320-331: the digest unless the mode is 5, then what the mode adds.
ResultLine(mode, h, nm) ==
    LET digest == IF mode # 5 THEN PRINTHASH(h) ELSE ""
    IN  CASE mode = 1 -> OutLine(digest, " *%s\n", nm, <<>>)
          [] mode = 4 -> OutLine(digest, " %s\n", nm, <<>>)
          [] OTHER -> OutLine(digest, "\n", "", <<>>)

\* A variant of ReadErrCleared that leaves the marker as it is.
ReadErrKept == read_err

\* read_err = 0; (line 316)
ReadErrCleared == 0

Result ==
    /\ pc = "result"
    /\ IF read_err = 1
       THEN /\ read_err' = ReadErrCleared
            /\ UNCHANGED stdout
       ELSE /\ stdout' = Append(stdout, ResultLine(outmode, hash, name))
            /\ UNCHANGED read_err
    /\ pc' = "close"
    /\ UNCHANGED <<argv, outmode, argnum, hash, i, kblk, blk, name, fp, error,
                   fpos, feof, ferr, stdin_closed, stderr, faults, hcall,
                   failed, out0, events, exitcode>>

\* A variant of fclose that does not close the stream.
fcloseOmitted(ev, n) == ev

\* fclose(fp); for the input at argument n (line 335).
fclose(ev, n) == Append(ev, <<"fclose", n>>)

\* close_file: fclose(fp); argnum++; then the loop condition.
CloseFile ==
    /\ pc = "close"
    /\ stdin_closed' = (stdin_closed \/ fp = "stdin")
    /\ events' = fclose(events, argnum)
    /\ argnum' = argnum + 1
    /\ pc' = LoopEnd(argnum')
    /\ UNCHANGED <<argv, outmode, hash, i, kblk, blk, name, fp, read_err, error,
                   fpos, feof, ferr, stdout, stderr, faults, hcall, failed,
                   out0, exitcode>>

\* exit(error);
Exit ==
    /\ pc = "exit"
    /\ exitcode' = error
    /\ pc' = "exited"
    /\ UNCHANGED <<argv, outmode, argnum, hash, i, kblk, blk, name, fp, read_err,
                   error, fpos, feof, ferr, stdin_closed, stdout, stderr, faults,
                   hcall, failed, out0, events>>

Next ==
    \/ ParseOptions
    \/ OpenInput
    \/ LineStep
    \/ ChunkStep
    \/ SubBlockStep
    \/ Result
    \/ CloseFile
    \/ Exit

Spec == Init /\ [][Next]_vars

(***************************************************************************)
(* The claims.  Definitions used to state them.                            *)
(***************************************************************************)
\* The output lines written since the current input was opened.
Emitted == SubSeq(stdout, out0 + 1, Len(stdout))

\* Of these lines, those that carry a digest.
DigestLines(lines) == SelectSeq(lines, LAMBDA l : l.digest # "")

\* The line with the digest d and nothing after it.
DigestOnly(d) == OutLine(PRINTHASH(d), "\n", "", <<>>)

\* The digest of a whole byte string, from a zero seed, in one call.
Digest(bytes) == jody_block_hash(bytes, 0, RLen(bytes))

\* The display name of the current input.
DisplayName == IF argc = 1 \/ argv[argnum] = "-" THEN "-" ELSE argv[argnum]

HasPrefix(str, pre) == Len(str) >= Len(pre) /\ SubSeq(str, 1, Len(pre)) = pre

CannotOpenLines == SelectSeq(stderr, LAMBDA l : HasPrefix(l, "error: cannot open: "))

\* The bytes the step under way took from the stream.
RawRead == RSlice(Content(fp), fpos + 1, fpos' - fpos)

EndsWithLF(r) == r # <<>> /\ r[Len(r)][1] = LF

\* A line without its terminator, \r\n or \n.
Chomp(r) ==
    LET n == RLen(r)
    IN  IF ~EndsWithLF(r) THEN r
        ELSE IF n >= 2 /\ RAt(r, n - 1) = CR THEN RTake(r, n - 2)
        ELSE RTake(r, n - 1)

\* The latest line of the diagnostic stream is new and reads msg.
Diagnosed(msg) == Len(stderr') > Len(stderr) /\ stderr'[Len(stderr')] = msg

(***************************************************************************)
(* C1: when the run ends, the exit status is success if and only if no     *)
(* input failed to open, to read or to hash.                               *)
(***************************************************************************)
C1_ExitSuccessIffNoFailure ==
    pc = "exited" => (exitcode = EXIT_SUCCESS <=> failed = {})

(***************************************************************************)
(* C2: an input that cannot be opened writes nothing to the output stream, *)
(* writes exactly one 'cannot open' diagnostic, sets the failure status,   *)
(* and the loop goes on to the next argument; with the two inputs nofile   *)
(* and data.bin the output holds exactly the digest line of data.bin.      *)
(***************************************************************************)
C2_OpenFailure ==
    /\ [][(pc = "open" /\ fp' = "NULL") =>
            /\ stdout' = stdout
            /\ stderr' = Append(stderr, "error: cannot open: " \o argv[argnum])
            /\ error' = EXIT_FAILURE
            /\ argnum' = argnum + 1
            /\ pc' = IF argnum + 1 < argc THEN "open" ELSE "exit"]_vars
    /\ [](pc = "exited" /\ argv = <<"nofile", "data.bin">> /\ faults = 0 =>
            /\ stdout = << DigestOnly(Digest(Files["data.bin"])) >>
            /\ Len(CannotOpenLines) = 1
            /\ exitcode = EXIT_FAILURE)

C2_Witness ==
    /\ pc = "exited"
    /\ argv = <<"nofile", "data.bin">>
    /\ faults = 0
    /\ Len(stdout) = 1
    /\ Len(CannotOpenLines) = 1

(***************************************************************************)
(* C3: in Whole-file and BinaryStyle mode, after a read error on the       *)
(* input's stream no digest record is written for the input and the        *)
(* failure is recorded in the exit status.                                 *)
(***************************************************************************)
C3_ReadErrorNoDigest ==
    [][(pc = "result" /\ outmode \in {0, 1} /\ ferr) =>
         (stdout' = stdout /\ error = EXIT_FAILURE)]_vars

(***************************************************************************)
(* C4: in Rolling mode the digest starts at zero when the input is opened, *)
(* every chunk is hashed in file order with the digest so far as seed, so  *)
(* the digest so far is the one-call digest of the bytes consumed, and the *)
(* one record emitted for an input drained to its end carries the digest   *)
(* of the input's whole byte sequence.                                     *)
(***************************************************************************)
C4_RollingDigest ==
    /\ [][(pc = "open" /\ outmode = 6) => hash' = 0]_vars
    /\ [][(pc = "fread" /\ outmode = 6 /\ fpos' > fpos /\ ~ferr') =>
            /\ hcall'.fn = "jody_rolling_block_hash"
            /\ hcall'.seed = hash
            /\ hcall'.data = RawRead
            /\ hcall'.count = fpos' - fpos]_vars
    /\ []((outmode = 6 /\ pc \in {"fread", "result"} /\ read_err = 0) =>
            hash = Digest(RTake(Content(fp), fpos)))
    /\ [][(pc = "result" /\ outmode = 6 /\ read_err = 0 /\ ~ferr) =>
            /\ Len(stdout) = out0
            /\ stdout' = Append(stdout, DigestOnly(Digest(Content(fp))))]_vars

C4_Witness ==
    /\ pc = "close"
    /\ outmode = 6
    /\ fp = "big.bin"
    /\ argnum \notin failed
    /\ fpos > BSIZE
    /\ Emitted = << DigestOnly(Digest(Files["big.bin"])) >>

(***************************************************************************)
(* C5: in SubBlock mode an input read and hashed without failure emits one *)
(* digest per started sub-block of kbsize bytes, k for kbsize * k bytes    *)
(* and k + 1 for kbsize * k + r bytes, the j-th being the digest from a    *)
(* zero seed of the bytes from kbsize * (j-1) up to kbsize * j or the end. *)
(***************************************************************************)
C5_SubBlockDigests ==
    (pc = "close" /\ outmode = 5 /\ argnum \notin failed) =>
        LET len == RLen(Content(fp))
            k   == len \div kbsize
            r   == len % kbsize
            d   == DigestLines(Emitted)
        IN  /\ Len(d) = IF r = 0 THEN k ELSE k + 1
            /\ \A j \in 1..Len(d) :
                 d[j] = DigestOnly(Digest(RSlice(Content(fp),
                                                 kbsize * (j - 1) + 1, kbsize)))

C5_Witness ==
    /\ pc = "close"
    /\ outmode = 5
    /\ fp = "big.bin"
    /\ argnum \notin failed
    /\ Len(DigestLines(Emitted)) = 10

(***************************************************************************)
(* C6: in the line modes the bytes and the length handed to the hash       *)
(* primitive for a terminated line are those of the line without its       *)
(* terminator, the same for \r\n as for \n.                                *)
(***************************************************************************)
C6_SameBytesCrlfAndLf ==
    [][(pc = "fgets" /\ Len(stdout') = Len(stdout) + 1 /\ EndsWithLF(RawRead)) =>
         /\ hcall'.data = Chomp(RawRead)
         /\ hcall'.count = RLen(Chomp(RawRead))]_vars

(***************************************************************************)
(* C7: in the line modes a line that is only a terminator, \n or \r\n, is  *)
(* neither hashed nor emitted.                                             *)
(***************************************************************************)
C7_TerminatorOnlySkipped ==
    [][(pc = "fgets" /\ ~ferr' /\ fpos' > fpos
          /\ RawRead \in {Bytes(<<LF>>), Bytes(<<CR, LF>>)}) =>
         (stdout' = stdout /\ hcall' = hcall)]_vars

(***************************************************************************)
(* C8: in Whole-file and BinaryStyle mode an input at its end with no byte *)
(* ever read and no read error emits exactly one record, with the digest   *)
(* of zero-length data, and does not set the failure status.               *)
(***************************************************************************)
C8_EmptyInput ==
    /\ [][(pc = "result" /\ outmode \in {0, 1} /\ fpos = 0 /\ feof /\ ~ferr) =>
            /\ Len(stdout) = out0
            /\ stdout' = Append(stdout,
                   IF outmode = 1
                   THEN OutLine(PRINTHASH(Digest(<<>>)), " *%s\n", DisplayName, <<>>)
                   ELSE DigestOnly(Digest(<<>>)))
            /\ error' = error]_vars
    /\ []((pc \in {"result", "close"} /\ outmode \in {0, 1} /\ fpos = 0 /\ feof
             /\ ~ferr) =>
            /\ argnum \notin failed
            /\ (error = EXIT_FAILURE => \E k \in failed : k < argnum)
            /\ (pc = "close" => Len(stdout) = out0 + 1))

C8_Witness ==
    /\ pc = "close"
    /\ outmode = 0
    /\ fp = "empty"
    /\ argv = <<"data.bin", "empty">>
    /\ fpos = 0 /\ feof /\ ~ferr
    /\ error = EXIT_SUCCESS
    /\ stdout[2] = DigestOnly(0)

(***************************************************************************)
(* C9: the one record of an input whose result is printed has the shape of *)
(* the mode: Whole-file the digest and a newline; BinaryStyle the digest,  *)
(* ' *', the display name, newline; Per-name the digest, ' ', the display  *)
(* name, newline; the display name is the path, or '-' for standard input; *)
(* the digest is that of the whole input when it was read without error.   *)
(***************************************************************************)
C9_RecordShape ==
    /\ [][(pc = "result" /\ outmode \in {0, 1, 4} /\ read_err = 0) =>
            /\ Len(stdout) = out0
            /\ stdout' = Append(stdout,
                   CASE outmode = 0 -> OutLine(PRINTHASH(hash), "\n", "", <<>>)
                     [] outmode = 1 ->
                          OutLine(PRINTHASH(hash), " *%s\n", DisplayName, <<>>)
                     [] outmode = 4 ->
                          OutLine(PRINTHASH(hash), " %s\n", DisplayName, <<>>))
            /\ (~ferr => hash = Digest(Content(fp)))]_vars
    /\ []((pc = "close" /\ outmode \in {0, 1, 4} /\ argnum \notin failed) =>
            Len(stdout) = out0 + 1)

C9_Witness ==
    /\ pc = "close"
    /\ outmode = 1
    /\ argnum \notin failed
    /\ Emitted = << OutLine(PRINTHASH(Digest(Files["data.bin"])), " *%s\n",
                            "data.bin", <<>>) >>

(***************************************************************************)
(* C10: every failure writes the message of its kind to the diagnostic     *)
(* stream: 'error: cannot open: <name>', 'error reading file: <name>',     *)
(* 'error hashing file: <name>'.                                           *)
(***************************************************************************)
C10_FailureMessages ==
    [][/\ (pc = "open" /\ fp' = "NULL") =>
            Diagnosed("error: cannot open: " \o name')
       /\ (pc \in {"fgets", "fread"} /\ ferr') =>
            Diagnosed("error reading file: " \o name)
       /\ (pc \in {"fgets", "fread", "subblock"} /\ ~ferr' /\ faults' > faults) =>
            Diagnosed("error hashing file: " \o name)]_vars


\* ---------------------------------------------------------------------
\* C11: in SubBlock mode, once the hash primitive has failed on a
\* sub-block of an input, the run is marked failed and no further
\* sub-block of that input is handed to the primitive or written out,
\* from the chunk under way or from a later chunk of the same input.
\* In SubBlock mode only a hash failure leaves a failed input in the
\* reading or the sub-block loop (a read error goes to the result).
C11_NoSubBlockAfterHashFailure ==
    [][(outmode = 5 /\ argnum \in failed /\ pc \in {"fread", "subblock"})
        => /\ error = EXIT_FAILURE
           /\ stdout' = stdout
           /\ hcall' = hcall]_vars

\* ---------------------------------------------------------------------
\* The arguments whose stream was opened, those whose stream was closed,
\* and the number of times the stream of argument n was closed.
OpenedInputs ==
    {events[e][2] : e \in {x \in DOMAIN events : events[x][1] = "fopen"}}

CloseCount(n) ==
    Cardinality({x \in DOMAIN events : events[x] = <<"fclose", n>>})

ClosedInputs == {n \in 1..argc : CloseCount(n) > 0}

\* C12: inputs never overlap.  At most one input stream is open at any
\* point; while an input is being read, in any mode and on the success,
\* read-error and hash-error paths alike, it is the only open one; when
\* the next input is about to be opened, or the run ends, every input
\* opened so far has been closed; no input is closed twice, and an
\* input that failed to open is never closed.
C12_OneInputOpenAtATime ==
    /\ Cardinality(OpenedInputs \ ClosedInputs) <= 1
    /\ ClosedInputs \subseteq OpenedInputs
    /\ \A n \in 1..argc : CloseCount(n) <= 1
    /\ pc \in {"fgets", "fread", "subblock", "result", "close"}
        => OpenedInputs \ ClosedInputs = {argnum}
    /\ pc \in {"open", "exit", "exited"} => OpenedInputs = ClosedInputs

\* A run ends with the first input ended by a hash failure in Line mode
\* and closed, and the second failed to open and not closed.
C12_Witness ==
    /\ pc = "exited"
    /\ outmode \in {2, 3}
    /\ events = <<<<"fopen", 2>>, <<"fclose", 2>>, <<"fopen failed", 3>>>>
    /\ failed = {2, 3}
    /\ \E l \in 1..Len(stderr) : HasPrefix(stderr[l], "error hashing file: ")

\* ---------------------------------------------------------------------
\* C13: in Line and Line-with-echo mode, a line that is not empty once
\* its terminator is removed (a final line without terminator and a
\* line of one character included) gives one output record, and the
\* bytes hashed for it, from a zero digest, are the line's bytes without
\* the terminator.  Stated for the reads that succeed, with the hash
\* primitive succeeding, of lines that do not end in \r\n.
C13_LineRecordHashesLine ==
    [][(/\ pc = "fgets"
        /\ fpos' > fpos
        /\ ~ferr'
        /\ faults' = faults
        /\ ~(EndsWithLF(RawRead) /\ Chomp(RawRead) # RTake(RawRead, RLen(RawRead) - 1))
        /\ Chomp(RawRead) # <<>>)
        => /\ Len(stdout') = Len(stdout) + 1
           /\ hcall'.seed = 0
           /\ hcall'.count = RLen(Chomp(RawRead))
           /\ hcall'.data = Chomp(RawRead)]_vars

\* ---------------------------------------------------------------------
\* C14: in Line and Line-with-echo mode, a read error while lines are
\* being read, whether the failing read returned a partial line or
\* nothing, ends the input with no record for the line in progress (so
\* none for later lines), marks the run as failed, and goes on to close
\* the input and take the next argument.
C14_LineReadError ==
    [][(pc = "fgets" /\ ferr')
        => /\ stdout' = stdout
           /\ pc' = "close"
           /\ error' = EXIT_FAILURE]_vars

\* ---------------------------------------------------------------------
\* The number of sub-blocks of n bytes.
SubBlockCount(n) == (n + kbsize - 1) \div kbsize

\* C15: the records written for an input read to its end without
\* failure are, in SubBlock mode, one 'digest, newline' record per
\* sub-block and nothing else (none for an empty input) and, in Rolling
\* mode, one 'digest, newline' record.
C15_SubBlockAndRollingRecords ==
    (pc = "close" /\ argnum \notin failed)
        => /\ outmode = 5
            => /\ Len(Emitted) = SubBlockCount(RLen(Content(fp)))
               /\ \A l \in 1..Len(Emitted) :
                    /\ Emitted[l].digest # ""
                    /\ Emitted[l].fmt = "\n"
           /\ outmode = 6
            => /\ Len(Emitted) = 1
               /\ Emitted[1].digest # ""
               /\ Emitted[1].fmt = "\n"

\* ---------------------------------------------------------------------
\* The lines of the diagnostic stream that announce a hashed chunk.
ChunkNotes == SelectSeq(stderr, LAMBDA l : HasPrefix(l, "doing a rolling hash of "))

\* C16: the digest is zero at the start of every hashing unit.  Opening
\* an input leaves the digest zero in every mode, whatever an earlier
\* input left in it; every call of the primitive for a line or for a
\* sub-block starts from zero, and the digest written for it is that of
\* the bytes of the call alone; in Whole-file, BinaryStyle, Per-name and
\* Rolling mode the first chunk of an input is hashed from zero and each
\* later chunk from the digest carried from the chunk before, so that
\* the digest is that of the bytes of this input read so far.
C16_DigestZeroAtUnitStart ==
    [][/\ pc = "open" => hash' = 0
       /\ (pc \in {"fgets", "subblock"} /\ Len(stdout') > Len(stdout)) =>
            /\ hcall'.seed = 0
            /\ hash' = Digest(hcall'.data)
            /\ stdout'[Len(stdout')].digest = PRINTHASH(hash')
       /\ (outmode' \in {2, 3, 5} /\ hcall'.fn # "none") => hcall'.seed = 0
       /\ (pc = "fread" /\ outmode # 5 /\ fpos' > fpos /\ ~ferr') =>
            /\ hcall'.seed = hash
            /\ fpos = 0 => hash = 0
            /\ hcall'.data = RawRead
       /\ (outmode' \in {0, 1, 4, 6} /\ pc' \in {"fread", "result"} /\ read_err' = 0)
            => hash' = Digest(RTake(Content(fp'), fpos'))]_vars

\* In Rolling mode the second input, taken after an input that left its
\* digest, not zero, in hash, has had its one chunk hashed from zero and
\* ends with the digest of its own bytes.
C16_Witness ==
    /\ pc = "result"
    /\ outmode = 6
    /\ argnum = 3
    /\ failed = {}
    /\ Len(ChunkNotes) = 2
    /\ Len(stdout) = 1
    /\ argv[2] \in DOMAIN Files
    /\ stdout[1].digest = PRINTHASH(Digest(Files[argv[2]]))
    /\ stdout[1].digest # PRINTHASH(0)
    /\ fpos > 0
    /\ hcall.seed = 0
    /\ hash = Digest(Content(fp))

\* ---------------------------------------------------------------------
\* The records that a run with one input alone, of these bytes and with
\* this display name and no failure, writes in Line and Line-with-echo
\* mode: the lines as fgets cuts them, each skipped or stripped and
\* hashed from zero.
RECURSIVE SoloLineRecords(_, _)
SoloLineRecords(mode, rest) ==
    IF rest = <<>> THEN <<>>
    ELSE LET nl    == RFind(rest, LF)
             n     == IF nl # 0 /\ nl <= BSIZE - 1 THEN nl
                      ELSE Min(BSIZE - 1, RLen(rest))
             got   == RCat(RTake(rest, n), << <<NUL, 1>> >>)
             len   == Strlen(got)
             strip == StripNewline(got, len)
             h     == jody_block_hash(strip, 0, len - 1)
             more  == SoloLineRecords(mode, RDrop(rest, n))
         IN  IF SkipLine(got, len) THEN more
             ELSE IF mode = 3
                  THEN <<OutLine(PRINTHASH(h), " '%s'\n", "", CString(strip))>>
                           \o more
                  ELSE <<OutLine(PRINTHASH(h), "\n", "", <<>>)>> \o more

\* The same in the other modes: in SubBlock mode a digest for each
\* sub-block and the line of line 331, otherwise the result line.
SoloRecords(mode, nm, bytes) ==
    CASE mode \in {2, 3} -> SoloLineRecords(mode, bytes)
      [] mode = 5 ->
           [j \in 1..SubBlockCount(RLen(bytes)) |->
               DigestOnly(Digest(RSlice(bytes, kbsize * (j - 1) + 1, kbsize)))]
               \o <<ResultLine(mode, 0, nm)>>
      [] OTHER -> <<ResultLine(mode, Digest(bytes), nm)>>

\* C17: failures are local to the input they occur in.  An input that
\* has no failure of its own has written, when it is closed, the
\* records it writes as the only input of a run, whether or not an
\* earlier input failed to open, to read or to hash; the error marker
\* is clear when an input is opened in a mode that consults it, and
\* when it is consulted and found set the input at hand has failed.
C17_FailuresAreLocal ==
    /\ (pc = "close" /\ argnum \notin failed)
        => Emitted = SoloRecords(outmode, name, Content(fp))
    /\ (pc = "open" /\ outmode \notin {2, 3}) => read_err = 0
    /\ (pc = "result" /\ read_err = 1) => argnum \in failed

\* In Whole-file mode the first input had a read error after bytes were
\* read, which set the marker, and the second input, read without
\* failure, has written its one record.
C17_Witness ==
    /\ pc = "close"
    /\ outmode = 0
    /\ argnum = 2
    /\ failed = {1}
    /\ \E l \in 1..Len(stderr) : stderr[l] = argv[1]
    /\ fpos > 0
    /\ Emitted = <<DigestOnly(Digest(Content(fp)))>>

\* ---------------------------------------------------------------------
\* The mode flags, and whether the first argument is a mode flag or --
\* with at least one argument after it.
ModeFlags == {"-b", "-s", "-n", "-l", "-L", "-B", "-r"}

FlagRecognised == Len(argv) >= 2 /\ argv[1] \in ModeFlags \cup {"--"}

\* C18: a mode flag or -- is recognised only as the first argument with
\* an argument after it; it is then consumed (the first input is the
\* second argument, and the first argument is never opened) and, for a
\* mode flag, a mode is selected.  Otherwise no mode is selected and the
\* first argument is the first input.  Every argument from the first
\* input on, a flag among them, is opened as a path (- as standard
\* input), and the mode stays what it was when the first input was
\* opened.
C18_FlagOnlyFirstAndFollowed ==
    [][/\ (pc = "options" /\ pc' = "open") =>
            IF FlagRecognised
            THEN argnum' = 2 /\ (outmode' # 0 <=> argv[1] \in ModeFlags)
            ELSE argnum' = 1 /\ outmode' = 0
       /\ (pc = "open" /\ argc > 1) =>
            /\ events'[Len(events')][2] = argnum
            /\ fp' = IF argv[argnum] = "-" THEN "stdin"
                     ELSE IF argv[argnum] \in DOMAIN Files THEN argv[argnum]
                     ELSE "NULL"
       /\ \A e \in DOMAIN events' :
            events'[e][2] >= (IF FlagRecognised THEN 2 ELSE 1)
       /\ pc # "options" => outmode' = outmode]_vars

\* -l before an argument selects Line mode and is not opened; -r after
\* it selects nothing and is opened as a path, which does not exist.
C18_Witness ==
    /\ pc = "exited"
    /\ argv = <<"-l", "-r">>
    /\ outmode = 2
    /\ events = <<<<"fopen failed", 2>>>>
    /\ stderr = <<"error: cannot open: -r">>

\* ---------------------------------------------------------------------
\* The argument numbers of the inputs attempted so far, in the order of
\* the attempts.
Attempts ==
    LET a == SelectSeq(events, LAMBDA e : e[1] \in {"fopen", "fopen failed"})
    IN  [k \in 1..Len(a) |-> a[k][2]]

\* The input arguments: standard input, as argument 1, when there are
\* no arguments, else every argument after the consumed mode flag or --.
InputArgs ==
    LET first == IF FlagRecognised THEN 2 ELSE 1
    IN  IF Len(argv) = 0 THEN <<1>>
        ELSE [k \in 1..(Len(argv) - first + 1) |-> first + k - 1]

\* The first argument asks for the version or the usage text.
UsageRun == Len(argv) >= 1 /\ argv[1] \in {"-v", "-h", "--help"}

\* C19 as stated: when the run has ended, every input argument has been
\* attempted exactly once, in command-line order.
C19_AllInputsAttempted == pc = "exited" => Attempts = InputArgs

\* The length of the longest input stream.
LongestInput ==
    LET lens == {RLen(Files[f]) : f \in DOMAIN Files} \cup {RLen(StdinData)}
    IN  CHOOSE m \in lens : \A n \in lens : n <= m

\* A bound on the steps left within the turn of the do loop under way:
\* two for every byte still to be read, one for every sub-block still
\* to be hashed, and the steps from the read loop to the close.
TurnStepsLeft ==
    CASE pc \in {"fgets", "fread"} -> 2 * Avail + 3
      [] pc = "subblock" -> 2 * Avail + 3 + SubBlockCount(i)
      [] pc = "result" -> 2
      [] pc = "close" -> 1
      [] OTHER -> 0

\* A bound on the steps left in the run.
StepsLeft ==
    LET turn == 2 * LongestInput + 16
    IN  CASE pc = "options" -> turn * (argc + 2)
          [] pc = "open" -> turn * (argc + 1 - argnum) + turn - 1
          [] pc = "exit" -> 1
          [] pc = "exited" -> 0
          [] OTHER -> turn * (argc + 1 - argnum) + TurnStepsLeft

\* The step at the program's position can be taken: the position is one
\* of the program's, there is an argument to open, the read has an
\* outcome, and there are bytes for the sub-block.
CanStep ==
    CASE pc \in {"options", "result", "close", "exit"} -> TRUE
      [] pc = "open" -> argc = 1 \/ argnum \in 1..Len(argv)
      [] pc = "fgets" -> FgetsOutcomes # {} /\ HashOutcomes # {}
      [] pc = "fread" -> FreadOutcomes # {} /\ HashOutcomes # {}
      [] pc = "subblock" -> i > 0 /\ HashOutcomes # {}
      [] OTHER -> FALSE

\* C19, amended: the run terminates (it never stops short of the exit,
\* and every step lowers a bound that is never negative); the inputs
\* attempted so far are always the first of the input arguments, each
\* once and in command-line order, whatever open, read and hash
\* failures occur; and when the run has ended all of them have been
\* attempted, unless the first argument is -v, -h or --help, when none
\* has.
C19_TerminatesAllAttempted ==
    [][LET left == StepsLeft'
           done == Attempts'
           args == InputArgs
       IN  /\ left < StepsLeft
           /\ left >= 0
           /\ pc' = "exited" \/ CanStep'
           /\ Len(done) <= Len(args)
           /\ done = SubSeq(args, 1, Len(done))
           /\ pc' = "exited" => done = IF UsageRun THEN <<>> ELSE args]_vars

\* A run has ended after two inputs, the first failed to open and the
\* second ended by a read error, both attempted in order.
C19_Witness ==
    /\ pc = "exited"
    /\ ~UsageRun
    /\ Attempts = <<2, 3>>
    /\ events[1][1] = "fopen failed"
    /\ failed = {2, 3}
    /\ ferr
    /\ exitcode = EXIT_FAILURE

\* ---------------------------------------------------------------------
\* C20: in SubBlock mode every sub-block handed to the hash primitive
\* lies inside the bytes the current read returned: while sub-blocks are
\* hashed the bytes handled and the bytes left add up to the bytes read,
\* which are no more than the buffer holds; the sub-block starts where
\* the handled bytes end, is not empty and ends within the bytes read;
\* the counter of the bytes left goes down by the sub-block's length,
\* never below zero, and is zero when the loop ends without a failure.
C20_SubBlockInsideChunk ==
    [][/\ pc' = "subblock" =>
            /\ i' > 0
            /\ kblk' * kbsize + i' = RLen(blk')
            /\ RLen(blk') <= BSIZE
       /\ pc = "subblock" =>
            /\ hcall'.offset = RLen(blk) - i
            /\ hcall'.count > 0
            /\ hcall'.offset + hcall'.count <= RLen(blk)
            /\ hcall'.data = RSlice(blk, hcall'.offset + 1, hcall'.count)
            /\ RLen(hcall'.data) = hcall'.count
            /\ i' >= 0
            /\ faults' = faults => i' = i - hcall'.count
            /\ (faults' = faults /\ pc' # "subblock") => i' = 0]_vars

\* The last sub-block of the second chunk of a file of BSIZE + 4099
\* bytes, three bytes at offset 4096, has been hashed and the counter is
\* down to zero.
C20_Witness ==
    /\ outmode = 5
    /\ pc = "result"
    /\ argnum \notin failed
    /\ fpos = BSIZE + kbsize + 3
    /\ RLen(blk) = kbsize + 3
    /\ hcall.offset = kbsize
    /\ hcall.count = 3
    /\ i = 0

============================================================================
